---- MODULE Spec2Model ----
(***************************************************************************)
(* A model of mcp_git_ingest/main.py: the cache-key derivation and the     *)
(* validate-or-reclone protocol of clone_repo, the tree renderer           *)
(* get_directory_tree, and the read / summarize pipeline of                *)
(* git_read_important_files.                                               *)
(*                                                                         *)
(* Strings are sequences of small integers (characters).  The file system  *)
(* under tempfile.gettempdir() is a function from cache keys to directory  *)
(* states.  git, the network and the summarization service are external:   *)
(* their outcomes are inputs the actions draw with \E.                     *)
(***************************************************************************)
EXTENDS Integers, Sequences, FiniteSets, TLC

VARIABLES
    urlA, revA, keyA,   \* first (repo_url, commit_hash) pair and its repo_hash
    urlB, revB, keyB,   \* second pair and its repo_hash
    disk,               \* cache key -> state of the directory github_tools_<key>
    last,               \* the record of the latest completed clone_repo call
    prev,               \* the record of the call before it (Idle after an external change)
    root,               \* the directory handed to get_directory_tree
    output,             \* the lines get_directory_tree returned
    rendered,           \* whether get_directory_tree has returned
    file_paths,         \* the file_paths argument of git_read_important_files
    worktree,           \* path -> the file the cloned repository holds there
    cred,               \* whether DEEPSEEK_API_KEY is set in the environment
    rpc,                \* where git_read_important_files stands
    idx,                \* the index of the next element of file_paths
    results,            \* the dict results
    files_to_summarize, \* the list files_to_summarize
    readLog,            \* the paths opened for reading, in order
    requestLog,         \* the summarization requests issued, with their outcome
    ret,                \* the mapping git_read_important_files returned
    pc,                 \* caller -> the line of clone_repo it stands at
    req,                \* caller -> the (repo_url, commit_hash) of its call
    overlapped,         \* caller -> whether another call ran during its call
    lastRet             \* the latest return or raise of an interleaved call

keyVars   == <<urlA, revA, keyA, urlB, revB, keyB>>
cloneVars == <<disk, last, prev>>
treeVars  == <<root, output, rendered>>
readVars  == <<file_paths, worktree, cred, rpc, idx, results, files_to_summarize,
               readLog, requestLog, ret>>
raceVars  == <<pc, req, overlapped, lastRet>>
vars      == <<keyVars, cloneVars, treeVars, readVars, raceVars>>

-----------------------------------------------------------------------------
(* Strings *)

\* the alphabet of the URLs and revisions drawn by the key specification
Chars == {1, 2}

\* longest repo_url / commit_hash drawn by the key specification
MaxUrlLen == 2
MaxRevLen == 2

\* Python's None for commit_hash; 0 is no character, so it is no string
None == <<0>>

StringsUpTo(n) == UNION {[1..k -> Chars] : k \in 0..n}

KeyUrls == StringsUpTo(MaxUrlLen) \ {<<>>}
KeyRevs == StringsUpTo(MaxRevLen) \cup {None}

\* the value of a key variable before the key is derived
Unset == <<>>

-----------------------------------------------------------------------------
(* clone_repo, line 27: the cache key *)

\* commit_hash or ""
OrEmpty(commit_hash) == IF commit_hash = None THEN <<>> ELSE commit_hash

\* Python truthiness of commit_hash: None and "" are both false
Truthy(commit_hash) == commit_hash # None /\ commit_hash # <<>>

HashBase == Cardinality(Chars) + 1

\* hashlib.sha256(s.encode()).hexdigest()[:12], taken collision-free on its
\* input string: the numeral of s in base HashBase with digits 1..HashBase-1,
\* which is injective on strings over Chars.
RECURSIVE Sha256Prefix(_)
Sha256Prefix(s) ==
    IF s = <<>> THEN 0 ELSE s[1] + HashBase * Sha256Prefix(Tail(s))

\* a key derivation that forgets the revision
RepoHashUrlOnly(repo_url, commit_hash) == Sha256Prefix(repo_url)

\* repo_hash = sha256((repo_url + (commit_hash or "")).encode()).hexdigest()[:12]
RepoHash(repo_url, commit_hash) == Sha256Prefix(repo_url \o OrEmpty(commit_hash))

\* temp_dir = os.path.join(tempfile.gettempdir(), f"github_tools_{repo_hash}")
TempDir(repo_url, commit_hash) == <<"github_tools_", RepoHash(repo_url, commit_hash)>>

-----------------------------------------------------------------------------
(* The cache directory and the external collaborators of clone_repo *)

\* the requests the clone specifications draw; (<<1>>, <<2>>) and
\* (<<1, 2>>, None) concatenate to the same string and so share a cache key
ReqUrls == {<<1>>, <<1, 2>>}
ReqRevs == {None, <<>>, <<2>>}

\* the revisions each remote repository holds
RemoteRevs(repo_url) == IF repo_url = <<1>> THEN {<<2>>} ELSE {}

Keys == {RepoHash(u, r) : u \in ReqUrls, r \in ReqRevs}

NoUrl == <<>>

\* the state of one directory github_tools_<key>
Absent   == [kind |-> "absent", origin |-> NoUrl, bare |-> FALSE, revs |-> {}, head |-> None]
EmptyDir == [kind |-> "empty", origin |-> NoUrl, bare |-> FALSE, revs |-> {}, head |-> None]
Junk     == [kind |-> "junk", origin |-> NoUrl, bare |-> FALSE, revs |-> {}, head |-> None]
RepoDir(origin, bare, revs, head) ==
    [kind |-> "repo", origin |-> origin, bare |-> bare, revs |-> revs, head |-> head]

\* a complete working copy: a non-bare repository with its checked-out files
Complete(dir) == dir.kind = "repo" /\ ~dir.bare

\* what another process may leave under the temporary-files root: a purged
\* directory, files that are no repository, a shallow or foreign or bare clone
ExternalDirs ==
    {Absent, Junk}
    \cup {RepoDir(u, FALSE, {}, None) : u \in ReqUrls}
    \cup {RepoDir(u, TRUE, RemoteRevs(u), None) : u \in ReqUrls}

\* os.path.exists(temp_dir)
PathExists(dir) == dir.kind # "absent"

\* git.Repo(temp_dir) raises unless temp_dir holds a repository
GitRepoRaises(dir) == dir.kind # "repo"

\* a validation that forgets to compare the remote URL
ReusableAnyOrigin(dir, repo_url) == ~dir.bare

\* a validation that never accepts the cached directory
NeverReusable(dir, repo_url) == FALSE

\* line 33: not repo.bare and repo.remote().url == repo_url
Reusable(dir, repo_url) == ~dir.bare /\ dir.origin = repo_url

\* repo.git.checkout(commit_hash) raises when the clone lacks the revision
CheckoutRaises(dir, commit_hash) == commit_hash \notin dir.revs

\* repo.git.checkout(commit_hash)
Checkout(dir, commit_hash) == [dir EXCEPT !.head = commit_hash]

\* shutil.rmtree(temp_dir, ignore_errors=True)
Rmtree(dir) == Absent

\* os.makedirs(temp_dir, exist_ok=True)
Makedirs(dir) == IF dir.kind = "absent" THEN EmptyDir ELSE dir

\* git.Repo.clone_from(repo_url, temp_dir) raises when the remote cannot be
\* reached, and when temp_dir exists and is not empty (git refuses it)
CloneFromRaises(dir, repo_url, up) == ~up \/ dir.kind \notin {"absent", "empty"}

\* git.Repo.clone_from(repo_url, temp_dir): a full clone on the default branch
CloneFrom(repo_url) == RepoDir(repo_url, FALSE, RemoteRevs(repo_url), None)

\* an except branch that forgets to remove the directory
ExceptKeep(dir, raised) == dir

\* lines 37-38: except: shutil.rmtree(temp_dir, ignore_errors=True)
ExceptRmtree(dir, raised) == IF raised THEN Rmtree(dir) ELSE dir

\* a failure path that leaves the directory behind
FailKeep(dir) == dir

\* line 47: shutil.rmtree(temp_dir, ignore_errors=True) before raising
FailCleanup(dir) == Rmtree(dir)

NoPath == <<>>
FailedToClone == "Failed to clone repository: "

\* clone_repo(repo_url, commit_hash) run to completion on the directory `dir`
\* of its key, with the remote reachable iff `up`.  The result holds the
\* directory afterwards, the outcome, and the operations performed in order.
clone_repo(dir, repo_url, commit_hash, up) ==
    LET temp_dir == TempDir(repo_url, commit_hash)
        exists   == PathExists(dir)
        opened   == exists /\ ~GitRepoRaises(dir)
        valid    == opened /\ Reusable(dir, repo_url)
        coRaises == valid /\ Truthy(commit_hash) /\ CheckoutRaises(dir, commit_hash)
        raised   == exists /\ (~opened \/ coRaises)
        s1 == (IF exists THEN <<"Repo">> ELSE <<>>)
              \o (IF valid /\ Truthy(commit_hash) THEN <<"checkout">> ELSE <<>>)
    IN  IF valid /\ ~coRaises
        THEN [dir   |-> IF Truthy(commit_hash) THEN Checkout(dir, commit_hash) ELSE dir,
              ok    |-> TRUE, path |-> temp_dir, err |-> "", steps |-> s1]
        ELSE
        LET d1 == ExceptRmtree(dir, raised)
            d2 == Makedirs(d1)
            cloneRaises == CloneFromRaises(d2, repo_url, up)
            d3 == IF cloneRaises THEN d2 ELSE CloneFrom(repo_url)
            co2 == ~cloneRaises /\ Truthy(commit_hash)
            co2Raises == co2 /\ CheckoutRaises(d3, commit_hash)
            s2 == s1 \o (IF raised THEN <<"rmtree">> ELSE <<>>)
                     \o <<"makedirs", "clone_from">>
                     \o (IF co2 THEN <<"checkout">> ELSE <<>>)
        IN  IF cloneRaises \/ co2Raises
            THEN [dir |-> FailCleanup(d3), ok |-> FALSE, path |-> NoPath,
                  err |-> FailedToClone, steps |-> s2 \o <<"rmtree">>]
            ELSE [dir |-> IF co2 THEN Checkout(d3, commit_hash) ELSE d3,
                  ok |-> TRUE, path |-> temp_dir, err |-> "", steps |-> s2]

-----------------------------------------------------------------------------
(* Sequential calls of clone_repo *)

Idle == [called |-> FALSE, url |-> NoUrl, rev |-> None, up |-> FALSE, pre |-> Absent,
         ok |-> FALSE, path |-> NoPath, err |-> "", steps |-> <<>>]

InitKeyIdle ==
    /\ urlA = NoUrl /\ revA = None /\ keyA = Unset
    /\ urlB = NoUrl /\ revB = None /\ keyB = Unset

InitCloneIdle ==
    /\ disk = [k \in Keys |-> Absent]
    /\ last = Idle
    /\ prev = Idle

\* one call clone_repo(repo_url, commit_hash), from line 25 to its return or raise
CloneRepo ==
    \E repo_url \in ReqUrls, commit_hash \in ReqRevs, up \in BOOLEAN :
        LET k == RepoHash(repo_url, commit_hash)
            r == clone_repo(disk[k], repo_url, commit_hash, up)
        IN  /\ disk' = [disk EXCEPT ![k] = r.dir]
            /\ last' = [called |-> TRUE, url |-> repo_url, rev |-> commit_hash, up |-> up,
                        pre |-> disk[k], ok |-> r.ok, path |-> r.path, err |-> r.err,
                        steps |-> r.steps]
            /\ prev' = last
            /\ UNCHANGED <<keyVars, treeVars, readVars, raceVars>>

\* another process changes a cache directory between two calls
ExternalChange ==
    \E k \in Keys, d \in ExternalDirs :
        /\ d # disk[k]
        /\ disk' = [disk EXCEPT ![k] = d]
        /\ last' = Idle
        /\ prev' = Idle
        /\ UNCHANGED <<keyVars, treeVars, readVars, raceVars>>

InitTreeIdle == root = << >> /\ output = << >> /\ rendered = FALSE

EmptyDict == << >>

InitReadIdle ==
    /\ file_paths = <<>> /\ worktree = EmptyDict /\ cred = FALSE
    /\ rpc = "idle" /\ idx = 0
    /\ results = EmptyDict /\ files_to_summarize = <<>>
    /\ readLog = <<>> /\ requestLog = <<>> /\ ret = EmptyDict

Procs == {1, 2}

NoReturn == [status |-> "none", proc |-> 0, complete |-> FALSE, matches |-> FALSE,
             overlapped |-> FALSE]

InitRaceIdle ==
    /\ pc = [p \in Procs |-> "idle"]
    /\ req = [p \in Procs |-> <<NoUrl, None>>]
    /\ overlapped = [p \in Procs |-> FALSE]
    /\ lastRet = NoReturn

InitClone == InitKeyIdle /\ InitCloneIdle /\ InitTreeIdle /\ InitReadIdle /\ InitRaceIdle
NextClone == CloneRepo \/ ExternalChange
SpecClone == InitClone /\ [][NextClone]_vars

LastKey == RepoHash(last.url, last.rev)

Contains(seq, x) == \E i \in 1..Len(seq) : seq[i] = x

\* the call `c` asked for a revision the remote can deliver, over a reachable remote
Clonable(c) == c.up /\ (Truthy(c.rev) => c.rev \in RemoteRevs(c.url))

\* the directory a successful fresh clone of call `c` leaves
FreshCopy(c) ==
    IF Truthy(c.rev) THEN Checkout(CloneFrom(c.url), c.rev) ELSE CloneFrom(c.url)

SamePair(c, d) == c.url = d.url /\ c.rev = d.rev

\* C2: a call that follows a successful call for the same (repo_url,
\* commit_hash), with no external change in between, succeeds, returns the
\* same path and performs no clone.
C2_RepeatedAcquireReuses ==
    (prev.called /\ prev.ok /\ last.called /\ SamePair(last, prev))
        => /\ last.ok
           /\ last.path = prev.path
           /\ ~Contains(last.steps, "clone_from")

\* the second of two calls for one pinned revision, the first having cloned
C2_Witness ==
    /\ prev.called /\ prev.ok /\ Contains(prev.steps, "clone_from")
    /\ last.called /\ SamePair(last, prev) /\ Truthy(last.rev)
    /\ last.ok /\ last.steps = <<"Repo", "checkout">>

\* the cached directory of the latest call was a valid non-bare working copy
\* of another remote
StaleOrigin(c) == Complete(c.pre) /\ c.pre.origin # c.url

\* C3: a call that finds a valid non-bare working copy of another origin in
\* its cache directory discards it, clones repo_url afresh within the same
\* call and returns the path, when the remote is clonable.
C3_StaleOriginRecloned ==
    (last.called /\ StaleOrigin(last) /\ Clonable(last))
        => /\ last.ok
           /\ last.path = TempDir(last.url, last.rev)
           /\ Contains(last.steps, "clone_from")
           /\ disk[LastKey] = FreshCopy(last)

\* the cached directory of call `c` validated, and lacks the revision asked for
ReuseCheckoutFails(c) ==
    /\ Complete(c.pre) /\ c.pre.origin = c.url
    /\ Truthy(c.rev) /\ c.rev \notin c.pre.revs

\* C8: when the cached directory validates but the checkout of the requested
\* revision fails, the call removes the directory and goes on to a fresh
\* clone and checkout; it fails only if that clone or checkout fails.
C8_ReuseCheckoutFailureFallsThrough ==
    (last.called /\ ReuseCheckoutFails(last))
        => /\ Len(last.steps) >= 5
           /\ SubSeq(last.steps, 1, 5)
                  = <<"Repo", "checkout", "rmtree", "makedirs", "clone_from">>
           /\ last.ok <=> Clonable(last)
           /\ last.ok => disk[LastKey] = FreshCopy(last) /\ last.err = ""
           /\ ~last.ok => last.err = FailedToClone

\* a reuse whose checkout failed, recovered by the fresh clone
C8_Witness ==
    last.called /\ ReuseCheckoutFails(last) /\ last.ok /\ disk[LastKey] = FreshCopy(last)

\* C9: a failed call fails with the acquisition error and leaves no cache
\* directory for its key, so the next call for that key finds no directory
\* and starts with a fresh clone.
C9_FailureLeavesNoDirectory ==
    /\ (last.called /\ ~last.ok)
           => /\ last.err = FailedToClone
              /\ last.path = NoPath
              /\ disk[LastKey] = Absent
    /\ (prev.called /\ ~prev.ok /\ last.called
            /\ RepoHash(last.url, last.rev) = RepoHash(prev.url, prev.rev))
           => /\ last.pre = Absent
              /\ Len(last.steps) >= 2
              /\ SubSeq(last.steps, 1, 2) = <<"makedirs", "clone_from">>

\* a call that failed on a directory it found, then a call for the same key
\* that cloned afresh
C9_Witness ==
    /\ prev.called /\ ~prev.ok /\ PathExists(prev.pre)
    /\ last.called /\ RepoHash(last.url, last.rev) = RepoHash(prev.url, prev.rev)
    /\ last.ok /\ Contains(last.steps, "clone_from")

-----------------------------------------------------------------------------
(* The cache key of two requests *)

InitKey ==
    /\ urlA \in KeyUrls /\ revA \in KeyRevs /\ keyA = Unset
    /\ urlB \in KeyUrls /\ revB \in KeyRevs /\ keyB = Unset
    /\ InitCloneIdle
    /\ InitTreeIdle
    /\ InitReadIdle
    /\ InitRaceIdle

\* line 27 for the first request
DeriveA ==
    /\ keyA = Unset
    /\ keyA' = <<RepoHash(urlA, revA)>>
    /\ UNCHANGED <<urlA, revA, urlB, revB, keyB, cloneVars, treeVars, readVars, raceVars>>

\* line 27 for the second request
DeriveB ==
    /\ keyB = Unset
    /\ keyB' = <<RepoHash(urlB, revB)>>
    /\ UNCHANGED <<urlA, revA, urlB, revB, keyA, cloneVars, treeVars, readVars, raceVars>>

NextKey == DeriveA \/ DeriveB
SpecKey == InitKey /\ [][NextKey]_vars

BothDerived == keyA # Unset /\ keyB # Unset

\* C1 as stated: two pairs that differ in the URL or in the revision (None
\* and "" counted as different) have different keys.
C1_DistinctPairsDistinctKeys ==
    (BothDerived /\ <<urlA, revA>> # <<urlB, revB>>) => keyA # keyB

\* C1 as the code has it: with a collision-free hash, two pairs have the same
\* key exactly when the strings repo_url + (commit_hash or "") are equal, so
\* identical pairs have identical keys and so do None and "".
C1_KeyEqualIffConcatEqual ==
    BothDerived
        => (keyA = keyB <=> urlA \o OrEmpty(revA) = urlB \o OrEmpty(revB))

\* two pairs with the same URL and different pinned revisions, keys derived
C1_Witness ==
    /\ BothDerived
    /\ urlA = urlB /\ Truthy(revA) /\ Truthy(revB) /\ revA # revB
    /\ keyA # keyB

-----------------------------------------------------------------------------
(* get_directory_tree *)

\* entry names, as code points
DotEnv == <<46, 101, 110, 118>>     \* ".env"
DotGit == <<46, 103, 105, 116>>     \* ".git"
Src    == <<115, 114, 99>>          \* "src"

FileSizes == {0, 7}

\* a directory is a function from the names of its entries to nodes
File(size)    == [isdir |-> FALSE, size |-> size, children |-> << >>]
Dir(children) == [isdir |-> TRUE, size |-> 0, children |-> children]

DirsOver(names, nodes) == UNION {[S -> nodes] : S \in SUBSET names}

Files == {File(n) : n \in FileSizes}

\* the directories drawn: three levels, with names that sort before and
\* after ".git" at the two upper levels
LeafDirs == DirsOver({Src}, {File(7)})
MidDirs  == DirsOver({DotEnv, DotGit}, Files \cup {Dir(d) : d \in LeafDirs})
RootDirs == DirsOver({DotEnv, DotGit, Src}, Files \cup {Dir(d) : d \in MidDirs})

\* str < str: code-point lexicographic order
RECURSIVE LexLess(_, _)
LexLess(a, b) ==
    IF b = <<>> THEN FALSE
    ELSE IF a = <<>> THEN TRUE
    ELSE IF a[1] # b[1] THEN a[1] < b[1]
    ELSE LexLess(Tail(a), Tail(b))

\* entries = os.listdir(path); entries.sort()
RECURSIVE SortedEntries(_)
SortedEntries(names) ==
    IF names = {} THEN <<>>
    ELSE LET least == CHOOSE n \in names : \A m \in names \ {n} : LexLess(n, m)
         IN  <<least>> \o SortedEntries(names \ {least})

\* entry.startswith(pre)
StartsWith(entry, pre) ==
    Len(entry) >= Len(pre) /\ SubSeq(entry, 1, Len(pre)) = pre

\* lines 61-62: the box-drawing connectors and indents, in ASCII
Corner == "+-- "
Tee    == "|-- "
Blank  == "    "
Bar    == "|   "

\* line 60: is_last = i == len(entries) - 1, with i counted from 1 here
IsLast(i, entries) == i = Len(entries)

\* line 66: size_str is the size in bytes in parentheses when size > 0, else empty
SizeStr(size) == IF size > 0 THEN <<" (", size, " bytes)">> ELSE <<>>

\* One output line, prefix + current_prefix + entry + size_str + newline, kept
\* in its parts; prefix is the sequence of the next_prefix of its ancestors.
\* LoopFrom is the for loop of lines 56-70 from index i on.
RECURSIVE get_directory_tree(_, _), LoopFrom(_, _, _, _)
LoopFrom(dir, entries, i, prefix) ==
    IF i > Len(entries) THEN <<>>
    ELSE
    LET entry == entries[i] IN
    IF StartsWith(entry, DotGit) THEN LoopFrom(dir, entries, i + 1, prefix)
    ELSE
    LET is_last == IsLast(i, entries)
        current_prefix == IF is_last THEN Corner ELSE Tee
        next_prefix == IF is_last THEN Blank ELSE Bar
        node == dir[entry]
        size == IF node.isdir THEN 0 ELSE node.size
        line == [prefix |-> prefix, connector |-> current_prefix,
                 entry |-> entry, size_str |-> SizeStr(size)]
    IN  <<line>>
        \o (IF node.isdir
            THEN get_directory_tree(node.children, prefix \o <<next_prefix>>)
            ELSE <<>>)
        \o LoopFrom(dir, entries, i + 1, prefix)

get_directory_tree(dir, prefix) ==
    LoopFrom(dir, SortedEntries(DOMAIN dir), 1, prefix)


InitTree ==
    /\ root \in RootDirs
    /\ output = <<>> /\ rendered = FALSE
    /\ InitKeyIdle
    /\ InitCloneIdle
    /\ InitReadIdle
    /\ InitRaceIdle

\* tree = get_directory_tree(repo_path)
Render ==
    /\ ~rendered
    /\ output' = get_directory_tree(root, <<>>)
    /\ rendered' = TRUE
    /\ UNCHANGED <<root, keyVars, cloneVars, readVars, raceVars>>

NextTree == Render
SpecTree == InitTree /\ [][NextTree]_vars

Depth(line) == Len(line.prefix)

\* line i of out has a later rendered sibling: a later line of the same
\* depth with only deeper lines in between
HasLaterSibling(out, i) ==
    \E j \in (i + 1)..Len(out) :
        /\ Depth(out[j]) = Depth(out[i])
        /\ \A m \in (i + 1)..(j - 1) : Depth(out[m]) > Depth(out[i])

\* C7: at every level the last rendered sibling carries the corner connector
\* and indents its descendants by four spaces, and every other rendered
\* sibling carries the tee connector and indents its descendants by the bar.
C7_LastRenderedSiblingConnector ==
    rendered
        => \A i \in 1..Len(output) :
               LET more == HasLaterSibling(output, i) IN
               /\ output[i].connector = (IF more THEN Tee ELSE Corner)
               /\ (i < Len(output) /\ Depth(output[i + 1]) > Depth(output[i]))
                      => output[i + 1].prefix
                             = output[i].prefix \o <<IF more THEN Bar ELSE Blank>>

-----------------------------------------------------------------------------
(* git_read_important_files and summarize_file *)

\* the longest file_paths list drawn
MaxPaths == 3

\* summarize_threshold: int = 10000
SummarizeThreshold == 10000

Paths == {"a.txt", "b.txt", "c.txt"}

\* the repository the read specification asks for
ReadUrl == <<1>>
ReadRev == None

\* what a path of the working copy holds: no regular file, a text file of
\* some encoded length, or a file that does not decode as UTF-8
NoFile     == [kind |-> "none", size |-> 0]
TextFile(n) == [kind |-> "text", size |-> n]
BinaryFile == [kind |-> "binary", size |-> 0]
FileStates == {NoFile, BinaryFile, TextFile(SummarizeThreshold),
               TextFile(SummarizeThreshold + 1)}

\* a string of the result, kept in its parts: marker + body + detail
Value(marker, body, detail) == [marker |-> marker, body |-> body, detail |-> detail]

SummaryMarker == "[SUMMARY] "
SummarizeError == "Error summarizing content: "

\* results[key] = value
Put(dict, key, value) ==
    [x \in DOMAIN dict \cup {key} |-> IF x = key THEN value ELSE dict[x]]

\* the file's text, as open(...).read() returns it
Content(file_path) == Value("", "content of ", file_path)

\* a not-found branch that records nothing
NotFoundSkipped(dict, file_path) == dict

\* line 150: results[file_path] = "Error: File not found"
NotFound(dict, file_path) == Put(dict, file_path, Value("", "Error: File not found", ""))

\* line 161: results[file_path] = f"Error reading file: {str(e)}"
ReadError(dict, file_path) ==
    Put(dict, file_path, Value("", "Error reading file: ", "UnicodeDecodeError"))

\* line 156: len(content.encode('utf-8')) > summarize_threshold
Oversized(file) == file.size > SummarizeThreshold

\* a credential check that never fails
CredentialNeverMissing(key_set) == FALSE

\* line 142: if not deepseek_api_key
CredentialMissing(key_set) == ~key_set

\* summarize_file(client, content, prompt): the completion's text, or the
\* error string of lines 110-111 when the request raises
summarize_file(content, request_ok) ==
    IF request_ok THEN Value("", "summary of ", content.detail)
    ELSE Value("", SummarizeError, "APIError")

\* line 172: f"[SUMMARY] {summary}"
WithSummaryMarker(summary) == [summary EXCEPT !.marker = SummaryMarker]

\* lines 171-172: for (file_path, _), summary in zip(...): results[file_path] = ...
RECURSIVE StoreSummaries(_, _, _, _)
StoreSummaries(dict, to_summarize, summaries, i) ==
    IF i > Len(to_summarize) THEN dict
    ELSE StoreSummaries(
             Put(dict, to_summarize[i][1], WithSummaryMarker(summaries[i])),
             to_summarize, summaries, i + 1)

\* lines 178-179: return {"error": f"Failed to process repository: {str(e)}"}
ErrorMapping(cause) ==
    [k \in {"error"} |-> Value("", "Failed to process repository: ", cause)]

SeqsUpTo(S, n) == UNION {[1..k -> S] : k \in 0..n}

InitRead ==
    /\ file_paths \in SeqsUpTo(Paths, MaxPaths)
    /\ worktree \in [Paths -> FileStates]
    /\ cred \in BOOLEAN
    /\ rpc = "start" /\ idx = 0
    /\ results = EmptyDict /\ files_to_summarize = <<>>
    /\ readLog = <<>> /\ requestLog = <<>> /\ ret = EmptyDict
    /\ InitKeyIdle /\ InitCloneIdle /\ InitTreeIdle /\ InitRaceIdle

\* lines 134-144: clone the repository, then look for the credential
ReadStart ==
    /\ rpc = "start"
    /\ \E up \in BOOLEAN :
        LET k == RepoHash(ReadUrl, ReadRev)
            r == clone_repo(disk[k], ReadUrl, ReadRev, up)
        IN  /\ disk' = [disk EXCEPT ![k] = r.dir]
            /\ IF ~r.ok
               THEN rpc' = "failed" /\ ret' = ErrorMapping(r.err) /\ idx' = idx
               ELSE IF CredentialMissing(cred)
               THEN /\ rpc' = "failed" /\ idx' = idx
                    /\ ret' = ErrorMapping("DEEPSEEK_API_KEY environment variable not set")
               ELSE rpc' = "loop" /\ idx' = 1 /\ ret' = ret
    /\ UNCHANGED <<file_paths, worktree, cred, results, files_to_summarize, readLog,
                   requestLog, last, prev, keyVars, treeVars, raceVars>>

\* lines 146-161: one iteration of the loop over file_paths
ReadFile ==
    /\ rpc = "loop" /\ idx <= Len(file_paths)
    /\ LET file_path == file_paths[idx]
           file == worktree[file_path]
       IN  IF file.kind = "none"
           THEN /\ results' = NotFound(results, file_path)
                /\ UNCHANGED <<files_to_summarize, readLog>>
           ELSE /\ readLog' = Append(readLog, file_path)
                /\ IF file.kind = "binary"
                   THEN /\ results' = ReadError(results, file_path)
                        /\ UNCHANGED files_to_summarize
                   ELSE IF Oversized(file)
                   THEN /\ files_to_summarize'
                              = Append(files_to_summarize, <<file_path, Content(file_path)>>)
                        /\ UNCHANGED results
                   ELSE /\ results' = Put(results, file_path, Content(file_path))
                        /\ UNCHANGED files_to_summarize
    /\ idx' = idx + 1
    /\ UNCHANGED <<file_paths, worktree, cred, rpc, requestLog, ret,
                   keyVars, cloneVars, treeVars, raceVars>>

\* lines 164-176: one request per oversized file, all joined, then the return
Summarize ==
    /\ rpc = "loop" /\ idx > Len(file_paths) /\ files_to_summarize # <<>>
    /\ \E request_ok \in [1..Len(files_to_summarize) -> BOOLEAN] :
        LET summaries == [i \in 1..Len(files_to_summarize)
                              |-> summarize_file(files_to_summarize[i][2], request_ok[i])]
            stored == StoreSummaries(results, files_to_summarize, summaries, 1)
        IN  /\ requestLog' = [i \in 1..Len(files_to_summarize)
                                  |-> [path |-> files_to_summarize[i][1], ok |-> request_ok[i]]]
            /\ results' = stored
            /\ ret' = stored
    /\ rpc' = "done"
    /\ UNCHANGED <<file_paths, worktree, cred, idx, files_to_summarize, readLog,
                   keyVars, cloneVars, treeVars, raceVars>>

\* lines 164 and 176: nothing to summarize, return results
ReturnResults ==
    /\ rpc = "loop" /\ idx > Len(file_paths) /\ files_to_summarize = <<>>
    /\ ret' = results
    /\ rpc' = "done"
    /\ UNCHANGED <<file_paths, worktree, cred, idx, results, files_to_summarize, readLog,
                   requestLog, keyVars, cloneVars, treeVars, raceVars>>

NextRead == ReadStart \/ ReadFile \/ Summarize \/ ReturnResults
SpecRead == InitRead /\ [][NextRead]_vars

Requested == {file_paths[i] : i \in 1..Len(file_paths)}

\* C4 as stated: the mapping returned for N requested paths has N keys,
\* repeated paths counted, whatever reads fail.
C4_OneKeyPerRequest ==
    rpc = "done" => Cardinality(DOMAIN ret) = Len(file_paths)

\* C4 as the code has it: the mapping returned has exactly the requested
\* paths as its keys, one key per distinct path, whatever reads fail.
C4_OneKeyPerDistinctPath ==
    rpc = "done" => DOMAIN ret = Requested

\* three requests, one path repeated, a missing file and an undecodable one
C4_Witness ==
    /\ rpc = "done"
    /\ Len(file_paths) = 3 /\ Cardinality(DOMAIN ret) = 2
    /\ \E f \in Requested : worktree[f] = NoFile
    /\ \E f \in Requested : worktree[f] = BinaryFile

FailedRequests == {i \in 1..Len(requestLog) : ~requestLog[i].ok}

\* the oversized files of the call are distinct paths
DistinctRequests ==
    \A i, j \in 1..Len(requestLog) : requestLog[i].path = requestLog[j].path => i = j

\* C5: when exactly one of the K summarization requests of a call fails, the
\* K files each have an entry, the failed file's entry is the error string
\* without the summary marker, and every other entry is a marked summary.
C5_OnlySuccessfulSummariesMarked ==
    (rpc = "done" /\ DistinctRequests /\ Cardinality(FailedRequests) = 1)
        => \A i \in 1..Len(requestLog) :
               LET f == requestLog[i].path IN
               /\ f \in DOMAIN ret
               /\ IF requestLog[i].ok
                  THEN ret[f].marker = SummaryMarker /\ ret[f].body = "summary of "
                  ELSE ret[f].marker = "" /\ ret[f].body = SummarizeError

\* C6: with the credential absent the call ends in the single-entry error
\* mapping, and at no point of the execution has a requested file been read
\* or a summarization request been issued.
C6_MissingCredentialFailsBeforeFileWork ==
    ~cred
        => /\ rpc \in {"start", "failed"}
           /\ readLog = <<>>
           /\ requestLog = <<>>
           /\ DOMAIN results = {}
           /\ rpc = "failed" => DOMAIN ret = {"error"}

\* the clone succeeded, the credential is absent, an oversized file was asked for
C6_Witness ==
    /\ ~cred /\ rpc = "failed"
    /\ Complete(disk[RepoHash(ReadUrl, ReadRev)])
    /\ ret["error"].detail = "DEEPSEEK_API_KEY environment variable not set"
    /\ \E f \in Requested : Oversized(worktree[f])

-----------------------------------------------------------------------------
(* Two interleaved calls of clone_repo for one cache key *)

\* the cache key the two callers share, and the requests that have it
RaceKey == RepoHash(<<1>>, <<2>>)
RaceReqs == {q \in ReqUrls \X ReqRevs : RepoHash(q[1], q[2]) = RaceKey}

Other(p) == CHOOSE q \in Procs : q # p

\* the caller p takes a step: whoever is inside a call while the other one
\* is inside a call too has been overlapped
Overlap(p, fresh) ==
    [x \in Procs |->
        IF x = p THEN (~fresh /\ overlapped[p]) \/ pc[Other(p)] # "idle"
        ELSE overlapped[x] \/ pc[x] # "idle"]

Step(p, next, dir) ==
    /\ pc' = [pc EXCEPT ![p] = next]
    /\ disk' = [disk EXCEPT ![RaceKey] = dir]
    /\ overlapped' = Overlap(p, FALSE)
    /\ UNCHANGED <<req, lastRet, last, prev, keyVars, treeVars, readVars>>

Url(p) == req[p][1]
Rev(p) == req[p][2]
Here == disk[RaceKey]

\* line 25: the call starts
Begin(p) ==
    /\ pc[p] = "idle"
    /\ \E q \in RaceReqs : req' = [req EXCEPT ![p] = q]
    /\ pc' = [pc EXCEPT ![p] = "exists"]
    /\ overlapped' = Overlap(p, TRUE)
    /\ UNCHANGED <<lastRet, cloneVars, keyVars, treeVars, readVars>>

\* line 30: if os.path.exists(temp_dir)
ExistsCheck(p) ==
    /\ pc[p] = "exists"
    /\ Step(p, IF PathExists(Here) THEN "open" ELSE "makedirs", Here)

\* lines 32-34: open the repository and validate it
OpenValidate(p) ==
    /\ pc[p] = "open"
    /\ IF GitRepoRaises(Here) THEN Step(p, "rmtree1", Here)
       ELSE IF Reusable(Here, Url(p))
       THEN Step(p, IF Truthy(Rev(p)) THEN "checkout1" ELSE "return", Here)
       ELSE Step(p, "makedirs", Here)

\* line 35: repo.git.checkout(commit_hash) in the reused directory
ReuseCheckout(p) ==
    /\ pc[p] = "checkout1"
    /\ IF GitRepoRaises(Here) \/ CheckoutRaises(Here, Rev(p))
       THEN Step(p, "rmtree1", Here)
       ELSE Step(p, "return", Checkout(Here, Rev(p)))

\* line 38: shutil.rmtree in the except branch
ExceptRemove(p) ==
    /\ pc[p] = "rmtree1"
    /\ Step(p, "makedirs", ExceptRmtree(Here, TRUE))

\* line 40: os.makedirs(temp_dir, exist_ok=True)
MakeDirs(p) ==
    /\ pc[p] = "makedirs"
    /\ Step(p, "clone", Makedirs(Here))

\* line 42: git.Repo.clone_from(repo_url, temp_dir)
Clone(p) ==
    /\ pc[p] = "clone"
    /\ \E up \in BOOLEAN :
        IF CloneFromRaises(Here, Url(p), up) THEN Step(p, "rmtree2", Here)
        ELSE Step(p, IF Truthy(Rev(p)) THEN "checkout2" ELSE "return", CloneFrom(Url(p)))

\* line 44: repo.git.checkout(commit_hash) in the fresh clone
CloneCheckout(p) ==
    /\ pc[p] = "checkout2"
    /\ IF GitRepoRaises(Here) \/ CheckoutRaises(Here, Rev(p))
       THEN Step(p, "rmtree2", Here)
       ELSE Step(p, "return", Checkout(Here, Rev(p)))

\* line 47: shutil.rmtree before the raise
FailRemove(p) ==
    /\ pc[p] = "rmtree2"
    /\ Step(p, "raise", FailCleanup(Here))

Finish(p, status) ==
    /\ pc' = [pc EXCEPT ![p] = "idle"]
    /\ overlapped' = Overlap(p, FALSE)
    /\ lastRet' = [status |-> status, proc |-> p,
                   complete |-> Complete(Here),
                   matches |-> /\ Here.origin = Url(p)
                               /\ Truthy(Rev(p)) => Here.head = Rev(p),
                   overlapped |-> overlapped'[p]]
    /\ UNCHANGED <<req, cloneVars, keyVars, treeVars, readVars>>

\* lines 36 and 45: return temp_dir
Return(p) == pc[p] = "return" /\ Finish(p, "ok")

\* line 48: raise Exception(f"Failed to clone repository: {str(e)}")
Raise(p) == pc[p] = "raise" /\ Finish(p, "failed")

InitRace == InitKeyIdle /\ InitCloneIdle /\ InitTreeIdle /\ InitReadIdle /\ InitRaceIdle

NextRace ==
    \E p \in Procs :
        \/ Begin(p) \/ ExistsCheck(p) \/ OpenValidate(p) \/ ReuseCheckout(p)
        \/ ExceptRemove(p) \/ MakeDirs(p) \/ Clone(p) \/ CloneCheckout(p)
        \/ FailRemove(p) \/ Return(p) \/ Raise(p)

SpecRace == InitRace /\ [][NextRace]_vars

\* C10 as stated: under interleaving, a call that returns a path returns a
\* directory that exists at that moment and holds a complete working copy.
C10_ReturnedDirectoryComplete ==
    lastRet.status = "ok" => lastRet.complete

\* C10 as the code has it: a call that returns a path, and during which no
\* other call for the key ran, returns a directory that exists at that
\* moment and holds a complete working copy of its repo_url at its revision.
C10_UnoverlappedReturnComplete ==
    (lastRet.status = "ok" /\ ~lastRet.overlapped)
        => lastRet.complete /\ lastRet.matches

\* a call that ran alone after the other caller had already returned
C10_Witness ==
    /\ lastRet.status = "ok" /\ ~lastRet.overlapped
    /\ lastRet.complete /\ lastRet.matches
    /\ pc[Other(lastRet.proc)] = "idle"
    /\ req[Other(lastRet.proc)] \in RaceReqs

====
